---- MODULE Spec2Model ----
(***************************************************************************)
(* crude_cache: a sharded, TTL-aware, type-erased async cache.             *)
(*                                                                         *)
(* The source tree holds two revisions of the facade `CrudeCache`:         *)
(*   "crude_cache"  src/src/crude_cache.rs on top of src/src/sharded_map.rs *)
(*                  (get, get_or_else_update -> update_atomic,             *)
(*                   force_insert, remove)                                 *)
(*   "lib"          src/src/lib.rs (get, get_or_else_update -> update,     *)
(*                  force_insert)                                          *)
(* A cache is built from one of them; `revision` is fixed at construction. *)
(* Each shard is a HashMap behind a tokio::sync::RwLock; the lock is       *)
(* modelled by its holders (one writer, or a set of readers).              *)
(***************************************************************************)
EXTENDS Integers, FiniteSets, TLC

\* ---- bounds of the model -------------------------------------------------
MaxTime == 2          \* the clock (Instant::now()) runs over 0..MaxTime
MaxCalls == 3         \* calls issued in one run, over all tasks

Tasks == {"t1", "t2"}             \* concurrent callers sharing the cache
Keys == {"h", "k"}                \* cache keys in use
TTLs == {1}                       \* `expiration` arguments
ShardCounts == {1, 2}             \* `num_shards` arguments of new()
Types == {"A", "B"}               \* concrete value types V
Values == {"a1", "a2", "b1"}      \* values: a1, a2 of type A; b1 of type B
Revisions == {"crude_cache", "lib"}

\* std::any::TypeId of a boxed value (what downcast_ref compares against)
TypeOf(v) == IF v \in {"a1", "a2"} THEN "A" ELSE "B"

\* Option::None for a looked-up item / an absent HashMap slot
NoItem == [instant |-> -1, value |-> "none"]

NoTask == "none"

VARIABLES
    revision,    \* which facade the cache was built from
    num_shards,  \* ShardedMap.num_shards
    shards,      \* ShardedMap.shards: shard index -> (key -> Item or NoItem)
    writer,      \* per shard: the task holding the RwLock write guard, or NoTask
    readers,     \* per shard: the tasks holding a read guard
    now,         \* Instant::now()
    pc,          \* per task: position inside its current call
    op,          \* per task: the operation last called
    key,         \* per task: its `key` argument
    typ,         \* per task: the value type V the call is instantiated with
    ttl,         \* per task: its `expiration` argument
    item,        \* per task: local `item` (looked up, or built by force_insert)
    result,      \* per task: outcome of its last completed call
    calls,       \* number of calls issued so far
    last_write   \* history: per key, the value of the last completed write,
                 \* "none" before any write and after a completed remove

vars == <<revision, num_shards, shards, writer, readers, now,
          pc, op, key, typ, ttl, item, result, calls, last_write>>

\* ---- ShardedMap ------------------------------------------------------------

\* DefaultHasher over the key: a fixed, arbitrary 64-bit digest per key
Hash(k) == IF k = "h" THEN 4 ELSE 7

\* ShardedMap::get_shard: index = hash.finish() % num_shards
get_shard(k) == Hash(k) % num_shards

\* a read that is granted while a write guard is out
CanRead_IgnoresWriter(s) == TRUE

\* RwLock::read() can be granted: no write guard is out on the shard.
\* (tokio serves requests in queue order, so a reader may also wait behind a
\* queued writer; the model grants every compatible request, which includes
\* every order tokio can produce.)
\* a read lock that admits one reader at a time
CanRead_Exclusive(s) == writer[s] = NoTask /\ readers[s] = {}

CanRead(s) == writer[s] = NoTask

\* a write that is granted while another write guard is out
CanWrite_IgnoresWriter(s) == readers[s] = {}

\* one lock for the whole map instead of one per shard
CanWrite_GlobalLock(s) ==
    \A s2 \in DOMAIN writer : writer[s2] = NoTask /\ readers[s2] = {}

\* RwLock::write() can be granted: no guard of either kind is out on the shard
CanWrite(s) == writer[s] = NoTask /\ readers[s] = {}

\* HashMap::get on the shard the key routes to
Lookup(k) == shards[get_shard(k)][k]

\* downcast_ref::<V>() succeeds
Downcasts(e, V) == TypeOf(e.value) = V

\* an insert that keeps the entry already stored when it expires later
insert_with_lock_KeepsLater(it, k) ==
    IF Lookup(k) # NoItem /\ Lookup(k).instant > it.instant
    THEN shards
    ELSE [shards EXCEPT ![get_shard(k)][k] = it]

\* an insert that always goes to the first shard
insert_with_lock_ShardZero(it, k) == [shards EXCEPT ![0][k] = it]

\* an insert that leaves an entry already stored in place
insert_with_lock_OrInsert(it, k) ==
    IF Lookup(k) # NoItem THEN shards ELSE [shards EXCEPT ![get_shard(k)][k] = it]

\* ShardedMap::insert_with_lock: lock.insert(key, Box::new(value))
insert_with_lock(it, k) ==
    [shards EXCEPT ![get_shard(k)][k] = it]

\* a remove that reports the entry but leaves it in the map
remove_entry_KeepsEntry(k) == shards

\* HashMap::remove under the write guard
remove_entry(k) ==
    [shards EXCEPT ![get_shard(k)][k] = NoItem]

\* ---- expiry tests ------------------------------------------------------------

\* the comparison turned round: a live item is taken for an expired one
GetExpired_Inverted(it, t) == it.instant > t

\* crude_cache.rs CrudeCache::get: `if item.instant < Instant::now() { return None }`
GetExpired(it, t) == it.instant < t

\* lib.rs get / update: `Some((instant, _)) if instant > &Instant::now()`
LibLive(it, t) == it # NoItem /\ it.instant > t

\* ---- construction ------------------------------------------------------------

Init ==
    /\ revision \in Revisions
    /\ num_shards \in ShardCounts
    /\ shards = [s \in 0..(num_shards - 1) |-> [k \in Keys |-> NoItem]]
    /\ writer = [s \in 0..(num_shards - 1) |-> NoTask]
    /\ readers = [s \in 0..(num_shards - 1) |-> {}]
    /\ now = 0
    /\ pc = [t \in Tasks |-> "idle"]
    /\ op = [t \in Tasks |-> "get"]
    /\ key = [t \in Tasks |-> "h"]
    /\ typ = [t \in Tasks |-> "A"]
    /\ ttl = [t \in Tasks |-> 1]
    /\ item = [t \in Tasks |-> NoItem]
    /\ result = [t \in Tasks |-> "none"]
    /\ calls = 0
    /\ last_write = [k \in Keys |-> "none"]

\* a task issues its next call
Issue(t) ==
    /\ pc[t] = "idle"
    /\ calls < MaxCalls
    /\ calls' = calls + 1
    /\ result' = [result EXCEPT ![t] = "none"]

\* a call returns (or unwinds) to its caller: locals are dropped
Finish(t, r) ==
    /\ pc' = [pc EXCEPT ![t] = "idle"]
    /\ result' = [result EXCEPT ![t] = r]
    /\ item' = [item EXCEPT ![t] = NoItem]
    /\ typ' = [typ EXCEPT ![t] = "A"]
    /\ ttl' = [ttl EXCEPT ![t] = 1]

Goto(t, l) == pc' = [pc EXCEPT ![t] = l]

\* ---- the clock -----------------------------------------------------------------

Tick ==
    /\ now < MaxTime
    /\ now' = now + 1
    /\ UNCHANGED <<revision, num_shards, shards, last_write, writer, readers,
                   pc, op, key, typ, ttl, item, result, calls>>

\* ---- calls -----------------------------------------------------------------------

\* get::<V>(key) is called
CallGet(t) ==
    /\ Issue(t)
    /\ \E k \in Keys, V \in Types :
        /\ op' = [op EXCEPT ![t] = "get"]
        /\ key' = [key EXCEPT ![t] = k]
        /\ typ' = [typ EXCEPT ![t] = V]
    /\ Goto(t, "get_rlock")
    /\ UNCHANGED <<revision, num_shards, shards, last_write, writer, readers, now, ttl, item>>

\* get_or_else_update::<V>(key, expiration, get) is called; it starts with get
CallGetOrElseUpdate(t) ==
    /\ Issue(t)
    /\ \E k \in Keys, V \in Types, d \in TTLs :
        /\ op' = [op EXCEPT ![t] = "get_or_else_update"]
        /\ key' = [key EXCEPT ![t] = k]
        /\ typ' = [typ EXCEPT ![t] = V]
        /\ ttl' = [ttl EXCEPT ![t] = d]
    /\ Goto(t, "get_rlock")
    /\ UNCHANGED <<revision, num_shards, shards, last_write, writer, readers, now, item>>

\* force_insert(key, value, expiration): the item is built with
\* Instant::now() + expiration before the shard lock is requested
CallForceInsert(t) ==
    /\ Issue(t)
    /\ \E k \in Keys, v \in Values, d \in TTLs :
        /\ op' = [op EXCEPT ![t] = "force_insert"]
        /\ key' = [key EXCEPT ![t] = k]
        /\ ttl' = [ttl EXCEPT ![t] = d]
        /\ item' = [item EXCEPT ![t] = [instant |-> now + d, value |-> v]]
    /\ Goto(t, "insert_wlock")
    /\ UNCHANGED <<revision, num_shards, shards, last_write, writer, readers, now, typ>>

\* remove(key) is called (crude_cache.rs only; lib.rs has no remove)
CallRemove(t) ==
    /\ Issue(t)
    /\ revision = "crude_cache"
    /\ \E k \in Keys :
        /\ op' = [op EXCEPT ![t] = "remove"]
        /\ key' = [key EXCEPT ![t] = k]
    /\ Goto(t, "remove_wlock")
    /\ UNCHANGED <<revision, num_shards, shards, last_write, writer, readers, now, typ, ttl, item>>

\* ---- get ---------------------------------------------------------------------------

\* the read guard of the key's shard is granted
\* (sharded_map.rs get: `self.get_shard(key).read().await`;
\*  lib.rs get: `self.inner.get_read_lock(key).await`)
AcquireRead(t) ==
    /\ pc[t] = "get_rlock"
    /\ CanRead(get_shard(key[t]))
    /\ readers' = [readers EXCEPT ![get_shard(key[t])] = @ \cup {t}]
    /\ Goto(t, "get_read")
    /\ UNCHANGED <<revision, num_shards, shards, last_write, writer, now,
                   op, key, typ, ttl, item, result, calls>>

\* a read guard that outlives the get that took it
ReleaseRead_KeepsGuard(t) ==
    readers' = readers

ReleaseRead(t) ==
    readers' = [readers EXCEPT ![get_shard(key[t])] = @ \ {t}]

\* get found nothing usable: plain get returns None, get_or_else_update goes on
\* to its fill (update_atomic / update), which first asks for the write lock
Miss(t) ==
    IF op[t] = "get"
    THEN Finish(t, "absent")
    ELSE /\ Goto(t, "update_wlock")
         /\ item' = [item EXCEPT ![t] = NoItem]
         /\ UNCHANGED <<typ, ttl, result>>

\* crude_cache.rs: ShardedMap::get under the read guard: look up, downcast
\* (assert!), clone; the guard drops on return and on the assert's unwind
ShardedMapGet(t) ==
    /\ pc[t] = "get_read"
    /\ revision = "crude_cache"
    /\ ReleaseRead(t)
    /\ LET e == Lookup(key[t]) IN
         IF e = NoItem
         THEN Miss(t)
         ELSE IF ~Downcasts(e, typ[t])
         THEN Finish(t, "panic_type")
         ELSE /\ item' = [item EXCEPT ![t] = e]
              /\ Goto(t, "get_check")
              /\ UNCHANGED <<typ, ttl, result>>
    /\ UNCHANGED <<revision, num_shards, shards, last_write, writer, now, op, key, calls>>

\* an expiry test that purges the entry it finds expired
GetCheck_Purges(t) ==
    /\ pc[t] = "get_check"
    /\ IF GetExpired(item[t], now)
       THEN Miss(t) /\ shards' = remove_entry(key[t])
       ELSE Finish(t, item[t].value) /\ shards' = shards
    /\ UNCHANGED <<revision, num_shards, last_write, writer, readers, now, op, key, calls>>

\* crude_cache.rs CrudeCache::get after inner.get returned Some(item):
\* the expiry test against Instant::now(), no lock held
GetCheck(t) ==
    /\ pc[t] = "get_check"
    /\ IF GetExpired(item[t], now)
       THEN Miss(t)
       ELSE Finish(t, item[t].value)
    /\ UNCHANGED <<revision, num_shards, shards, last_write, writer, readers, now, op, key, calls>>

\* lib.rs CrudeCache::get under the read guard: expiry test first, downcast
\* (assert!) only for a live entry
LibGet(t) ==
    /\ pc[t] = "get_read"
    /\ revision = "lib"
    /\ ReleaseRead(t)
    /\ LET e == Lookup(key[t]) IN
         IF LibLive(e, now)
         THEN IF ~Downcasts(e, typ[t])
              THEN Finish(t, "panic_type")
              ELSE Finish(t, e.value)
         ELSE Miss(t)
    /\ UNCHANGED <<revision, num_shards, shards, last_write, writer, now, op, key, calls>>

\* ---- the fill of get_or_else_update -----------------------------------------------

\* the order of the private, uncalled `update`: go on to compute without
\* having the write guard
AcquireWrite_ComputeFirst(t) ==
    /\ pc[t] = "update_wlock"
    /\ Goto(t, "update_locked")
    /\ UNCHANGED <<revision, num_shards, shards, last_write, writer, readers, now,
                   op, key, typ, ttl, item, result, calls>>

\* the write guard of the key's shard is granted
\* (crude_cache.rs update_atomic line 52; lib.rs update line 87)
AcquireWrite(t) ==
    /\ pc[t] = "update_wlock"
    /\ CanWrite(get_shard(key[t]))
    /\ writer' = [writer EXCEPT ![get_shard(key[t])] = t]
    /\ Goto(t, "update_locked")
    /\ UNCHANGED <<revision, num_shards, shards, last_write, readers, now,
                   op, key, typ, ttl, item, result, calls>>

\* a write guard that is never given back
ReleaseWrite_KeepsGuard(t) ==
    writer' = writer

ReleaseWrite(t) ==
    writer' = [writer EXCEPT ![get_shard(key[t])] = NoTask]

\* crude_cache.rs update_atomic line 53: `get().await` is entered right after
\* the guard is obtained, whatever the shard holds
UpdateAtomicInvoke(t) ==
    /\ pc[t] = "update_locked"
    /\ revision = "crude_cache"
    /\ Goto(t, "computing")
    /\ UNCHANGED <<revision, num_shards, shards, last_write, writer, readers, now,
                   op, key, typ, ttl, item, result, calls>>

\* a re-check whose failed assert leaves the write guard behind
UpdateCheck_PanicKeepsGuard(t) ==
    /\ pc[t] = "update_locked"
    /\ revision = "lib"
    /\ LET e == Lookup(key[t]) IN
         IF LibLive(e, now)
         THEN IF ~Downcasts(e, typ[t])
              THEN Finish(t, "panic_type") /\ writer' = writer
              ELSE Finish(t, e.value) /\ ReleaseWrite(t)
         ELSE /\ Goto(t, "computing")
              /\ UNCHANGED <<writer, typ, ttl, item, result>>
    /\ UNCHANGED <<revision, num_shards, shards, last_write, readers, now, op, key, calls>>

\* lib.rs update lines 89-101: re-check under the write guard; a live entry is
\* downcast (assert!) and returned, anything else starts `get().await`
UpdateCheck(t) ==
    /\ pc[t] = "update_locked"
    /\ revision = "lib"
    /\ LET e == Lookup(key[t]) IN
         IF LibLive(e, now)
         THEN /\ ReleaseWrite(t)
              /\ IF ~Downcasts(e, typ[t])
                 THEN Finish(t, "panic_type")
                 ELSE Finish(t, e.value)
         ELSE /\ Goto(t, "computing")
              /\ UNCHANGED <<writer, typ, ttl, item, result>>
    /\ UNCHANGED <<revision, num_shards, shards, last_write, readers, now, op, key, calls>>

\* a fill that stores the bare duration as the expiry
FillItem_NoNow(t, v) == [instant |-> ttl[t], value |-> v]

\* the entry a finished fill writes: Instant::now() + expiration, the value
FillItem(t, v) == [instant |-> now + ttl[t], value |-> v]

\* `get().await` completes with a value of type V: the entry is inserted under
\* the guard still held, the guard drops, the value is returned
ComputeDone(t) ==
    /\ pc[t] = "computing"
    /\ \E v \in {x \in Values : TypeOf(x) = typ[t]} :
        /\ shards' = insert_with_lock(FillItem(t, v), key[t])
        /\ last_write' = [last_write EXCEPT ![key[t]] = v]
        /\ Finish(t, v)
    /\ ReleaseWrite(t)
    /\ UNCHANGED <<revision, num_shards, readers, now, op, key, calls>>

\* an unwind that leaves the write guard behind
ComputeFail_KeepsLock(t) ==
    /\ pc[t] = "computing"
    /\ Finish(t, "panic_compute")
    /\ UNCHANGED <<revision, num_shards, shards, last_write, writer, readers, now, op, key, calls>>

\* `get().await` panics: the unwind drops the guard, nothing is inserted
ComputeFail(t) ==
    /\ pc[t] = "computing"
    /\ ReleaseWrite(t)
    /\ Finish(t, "panic_compute")
    /\ UNCHANGED <<revision, num_shards, shards, last_write, readers, now, op, key, calls>>

\* ---- force_insert / remove ------------------------------------------------------------

\* ShardedMap::insert: write guard granted, insert_with_lock, guard dropped
Insert(t) ==
    /\ pc[t] = "insert_wlock"
    /\ CanWrite(get_shard(key[t]))
    /\ shards' = insert_with_lock(item[t], key[t])
    /\ last_write' = [last_write EXCEPT ![key[t]] = item[t].value]
    /\ Finish(t, "unit")
    /\ UNCHANGED <<revision, num_shards, writer, readers, now, op, key, calls>>

\* ShardedMap::remove: write guard granted, HashMap::remove(key).is_some()
Remove(t) ==
    /\ pc[t] = "remove_wlock"
    /\ CanWrite(get_shard(key[t]))
    /\ shards' = remove_entry(key[t])
    /\ last_write' = [last_write EXCEPT ![key[t]] = "none"]
    /\ Finish(t, IF Lookup(key[t]) # NoItem THEN "true" ELSE "false")
    /\ UNCHANGED <<revision, num_shards, writer, readers, now, op, key, calls>>

\* ---- the system ---------------------------------------------------------------------------

Step(t) ==
    \/ CallGet(t)
    \/ CallGetOrElseUpdate(t)
    \/ CallForceInsert(t)
    \/ CallRemove(t)
    \/ AcquireRead(t)
    \/ ShardedMapGet(t)
    \/ GetCheck(t)
    \/ LibGet(t)
    \/ AcquireWrite(t)
    \/ UpdateAtomicInvoke(t)
    \/ UpdateCheck(t)
    \/ ComputeDone(t)
    \/ ComputeFail(t)
    \/ Insert(t)
    \/ Remove(t)

Next == Tick \/ \E t \in Tasks : Step(t)

Spec == Init /\ [][Next]_vars

\* the steps of a call that wait for nothing: code between two awaits, and
\* the end of compute (every compute call terminates, by return or by panic)
Runs(t) ==
    \/ ShardedMapGet(t) \/ GetCheck(t) \/ LibGet(t)
    \/ UpdateAtomicInvoke(t) \/ UpdateCheck(t)
    \/ ComputeDone(t) \/ ComputeFail(t)

\* the steps that are the grant of a lock request
Granted(t) == AcquireRead(t) \/ AcquireWrite(t) \/ Insert(t) \/ Remove(t)

\* the tokio runtime polls every ready task, and tokio's RwLock queues its
\* waiters fairly: a request that can be granted again and again is granted.
\* Callers are free never to issue another call and the clock is free to stop.
Fairness == \A t \in Tasks : WF_vars(Runs(t)) /\ SF_vars(Granted(t))

SpecFair == Spec /\ Fairness

\* ---- vocabulary of the properties ----------------------------------------------------------

ShardOf(t) == get_shard(key[t])

\* the entry stored under k has not reached its expiry
Fresh(k) == Lookup(k) # NoItem /\ Lookup(k).instant > now

\* t stands at a lock request that has not been granted yet
WaitsForRead(t) == pc[t] = "get_rlock"
WaitsForWrite(t) == pc[t] \in {"update_wlock", "insert_wlock", "remove_wlock"}

\* another caller u of get_or_else_update(k) has returned, and the value it
\* returned is the fresh entry now stored under k
FilledBy(u, k) ==
    /\ op[u] = "get_or_else_update"
    /\ key[u] = k
    /\ pc[u] = "idle"
    /\ result[u] \in Values
    /\ Fresh(k)
    /\ Lookup(k).value = result[u]

TypeOK ==
    /\ revision \in Revisions
    /\ num_shards \in ShardCounts
    /\ now \in 0..MaxTime
    /\ calls \in 0..MaxCalls
    /\ \A t \in Tasks : key[t] \in Keys /\ typ[t] \in Types /\ ttl[t] \in TTLs

\* ---- C1 -------------------------------------------------------------------------------------
\* C1: under any interleaving of get_or_else_update calls, at most one compute
\* is in flight per shard (hence per key) at any time.
C1_OneComputePerShard ==
    \A t, u \in Tasks :
        (t # u /\ pc[t] = "computing" /\ pc[u] = "computing")
            => ShardOf(t) # ShardOf(u)

\* one caller computes while another caller of the same key waits for the lock
C1_Witness ==
    \E t, u \in Tasks :
        /\ t # u
        /\ pc[t] = "computing"
        /\ pc[u] = "update_wlock"
        /\ key[u] = key[t]

\* ---- C2 -------------------------------------------------------------------------------------
\* C2: a caller of get_or_else_update(k) that holds the shard's write lock after
\* another caller has written a fresh entry for k does not invoke f again.
C2_NoSecondInvocation ==
    [][\A t \in Tasks :
         (/\ op[t] = "get_or_else_update"
          /\ pc[t] = "update_locked"
          /\ \E u \in Tasks \ {t} : FilledBy(u, key[t]))
            => pc'[t] # "computing"]_vars

\* ---- C3 -------------------------------------------------------------------------------------
\* C3: a get_or_else_update(k) call that returns while k holds the fresh entry
\* written by another caller's computation returns that entry's value and
\* leaves the entry as it is.
C3_SharedResult ==
    [][\A t \in Tasks :
         (/\ op[t] = "get_or_else_update"
          /\ pc[t] # "idle"
          /\ pc'[t] = "idle"
          /\ result'[t] \in Values
          /\ \E u \in Tasks \ {t} : FilledBy(u, key[t]))
            => /\ result'[t] = Lookup(key[t]).value
               /\ shards' = shards]_vars

\* ---- C4 -------------------------------------------------------------------------------------
\* the item get's expiry test looks at, and the step that makes the test
ReadItem(t) == IF revision = "crude_cache" THEN item[t] ELSE Lookup(key[t])

WarmRead(t) ==
    /\ op[t] = "get_or_else_update"
    /\ pc[t] = (IF revision = "crude_cache" THEN "get_check" ELSE "get_read")
    /\ ReadItem(t) # NoItem
    /\ ReadItem(t).instant > now
    /\ Downcasts(ReadItem(t), typ[t])

\* C4: get_or_else_update on a key whose entry is unexpired when get tests it
\* returns the stored value, does not go on to a fill (f is never invoked),
\* and leaves every shard unchanged.
C4_WarmHit ==
    [][\A t \in Tasks :
         (WarmRead(t) /\ pc'[t] # pc[t])
            => /\ pc'[t] = "idle"
               /\ result'[t] = ReadItem(t).value
               /\ shards' = shards]_vars

C4_Witness == \E t \in Tasks : WarmRead(t)

\* ---- C5 -------------------------------------------------------------------------------------
\* the step at which a plain get tests the entry it found for expiry
GetTests(t) ==
    /\ op[t] = "get"
    /\ pc[t] = (IF revision = "crude_cache" THEN "get_check" ELSE "get_read")
    /\ ReadItem(t) # NoItem
    /\ Downcasts(ReadItem(t), typ[t])

\* a force_insert(k, ..) has completed
Inserted(k) ==
    \E u \in Tasks :
        op[u] = "force_insert" /\ key[u] = k /\ pc[u] = "idle" /\ result[u] = "unit"

\* C5: after force_insert(k, v, ttl) at t0, with the entry not written or
\* removed since, get(k) returns v at every time before t0+ttl and absent at
\* every time from t0+ttl on, t0+ttl itself included.
C5_ExpiryWindow ==
    [][\A t \in Tasks :
         (/\ GetTests(t)
          /\ Inserted(key[t])
          /\ ReadItem(t) = Lookup(key[t])
          /\ pc'[t] # pc[t])
            => result'[t] = (IF now < ReadItem(t).instant
                             THEN ReadItem(t).value
                             ELSE "absent")]_vars

\* ---- C6 -------------------------------------------------------------------------------------
\* C6: a get or get_or_else_update on a key whose stored entry, live or
\* expired, has another type than the one requested panics at its read,
\* and so never reaches compute.
C6_MismatchPanics ==
    [][\A t \in Tasks :
         (/\ pc[t] = "get_read"
          /\ Lookup(key[t]) # NoItem
          /\ ~Downcasts(Lookup(key[t]), typ[t])
          /\ pc'[t] # pc[t])
            => /\ pc'[t] = "idle"
               /\ result'[t] = "panic_type"]_vars

\* ---- C7 -------------------------------------------------------------------------------------
\* C7: when compute fails inside get_or_else_update, the caller gets the
\* failure, no shard changes (a prior entry stays as it was), and the write
\* lock of the key's shard is free again, so the next request for it is granted.
C7_ComputeFailure ==
    [][\A t \in Tasks :
         (pc[t] = "computing" /\ pc'[t] = "idle" /\ result'[t] \notin Values)
            => /\ result'[t] = "panic_compute"
               /\ shards' = shards
               /\ writer'[ShardOf(t)] = NoTask
               /\ readers'[ShardOf(t)] = {}]_vars

\* a fill over an expired entry has failed; the old entry is still stored
C7_Witness ==
    \E t \in Tasks :
        /\ pc[t] = "idle"
        /\ result[t] = "panic_compute"
        /\ Lookup(key[t]) # NoItem
        /\ writer[ShardOf(t)] = NoTask

\* ---- C8 -------------------------------------------------------------------------------------
\* C8: remove(k) returns true exactly when k had an entry, live or expired;
\* afterwards k has none, every other key is untouched (nothing changes when
\* k was absent), and a get that reads k with no entry returns absent.
C8_Remove ==
    [][/\ \A t \in Tasks :
            (pc[t] = "remove_wlock" /\ pc'[t] = "idle")
               => /\ result'[t] = (IF Lookup(key[t]) # NoItem THEN "true" ELSE "false")
                  /\ shards'[ShardOf(t)][key[t]] = NoItem
                  /\ \A k \in Keys \ {key[t]} :
                        shards'[get_shard(k)][k] = Lookup(k)
                  /\ (Lookup(key[t]) = NoItem => shards' = shards)
       /\ \A u \in Tasks :
            (/\ op[u] = "get"
             /\ pc[u] = "get_read"
             /\ Lookup(key[u]) = NoItem
             /\ pc'[u] # pc[u])
               => pc'[u] = "idle" /\ result'[u] = "absent"]_vars

\* a remove has returned true, the entry is gone and a get of the key by
\* another task has returned absent
C8_Witness ==
    \E t, u \in Tasks :
        /\ op[t] = "remove" /\ pc[t] = "idle" /\ result[t] = "true"
        /\ Lookup(key[t]) = NoItem
        /\ op[u] = "get" /\ key[u] = key[t] /\ pc[u] = "idle"
        /\ result[u] = "absent"

\* ---- C9 -------------------------------------------------------------------------------------
\* C9: whether a lock request is granted depends on the guards out on the
\* key's own shard only: a request on a shard with no conflicting guard can
\* be granted whatever is held, and for however long, on other shards.
C9_ShardsIndependent ==
    \A t \in Tasks :
        /\ (WaitsForRead(t) /\ writer[ShardOf(t)] = NoTask)
              => ENABLED AcquireRead(t)
        /\ (WaitsForWrite(t) /\ writer[ShardOf(t)] = NoTask
                             /\ readers[ShardOf(t)] = {})
              => ENABLED (AcquireWrite(t) \/ Insert(t) \/ Remove(t))

\* a fill holds one shard's write lock while a request on another shard waits
\* to be granted
C9_Witness ==
    \E t, u \in Tasks :
        /\ pc[t] = "computing"
        /\ WaitsForRead(u) \/ WaitsForWrite(u)
        /\ ShardOf(u) # ShardOf(t)

\* ---- C10 ------------------------------------------------------------------------------------
\* C10: while a task is inside compute holding a shard's write lock, every
\* other operation that still has to lock that shard (get, force_insert,
\* remove, get_or_else_update, on any key of the shard) stays where it is;
\* it moves only after the fill has ended, and never if the fill never ends.
C10_FillBlocksShard ==
    [][\A t, u \in Tasks :
         (/\ t # u
          /\ pc[t] = "computing"
          /\ ShardOf(u) = ShardOf(t)
          /\ pc[u] \notin {"idle", "get_check"})
            => /\ pc'[u] = pc[u]
               /\ (pc'[t] = "computing" => shards' = shards)]_vars

\* a fill is in progress and a request for another key of the same shard waits
C10_Witness ==
    \E t, u \in Tasks :
        /\ pc[t] = "computing"
        /\ WaitsForRead(u) \/ WaitsForWrite(u)
        /\ ShardOf(u) = ShardOf(t)
        /\ key[u] # key[t]

\* ---- C11 ------------------------------------------------------------------------------------
\* C11 as stated: when force_insert(k, v2, ttl2) completes at time t, the entry
\* of k is (t + ttl2, v2).
C11_ExpiryFromCompletion ==
    [][\A t \in Tasks :
         (pc[t] = "insert_wlock" /\ pc'[t] = "idle")
            => shards'[ShardOf(t)][key[t]] =
                  [instant |-> now + ttl[t], value |-> item[t].value]]_vars

\* C11 as amended: the item is built when force_insert is called, at time t0,
\* as (t0 + ttl2, v2); when the call completes, at t >= t0, the entry of k is
\* exactly that item, whatever k held before (live, expired, or expiring
\* later than the new item), and no other key changes.
C11_InsertOverwrites ==
    [][\A t \in Tasks :
         /\ (pc[t] = "idle" /\ pc'[t] = "insert_wlock")
               => \E v \in Values :
                     item'[t] = [instant |-> now + ttl'[t], value |-> v]
         /\ (pc[t] = "insert_wlock" /\ pc'[t] = "idle")
               => /\ shards'[ShardOf(t)][key[t]] = item[t]
                  /\ item[t].instant <= now + ttl[t]
                  /\ \A k \in Keys \ {key[t]} :
                        shards'[get_shard(k)][k] = Lookup(k)]_vars

\* a force_insert is about to overwrite an entry that expires later than the
\* item it carries
C11_Witness ==
    \E t \in Tasks :
        /\ pc[t] = "insert_wlock"
        /\ Lookup(key[t]) # NoItem
        /\ Lookup(key[t]).instant > item[t].instant
        /\ CanWrite(ShardOf(t))

\* ---- C12 ------------------------------------------------------------------------------------
\* the entry of t's key is stored and its expiry is not after `now`
Stale(t) == Lookup(key[t]) # NoItem /\ Lookup(key[t]).instant <= now

\* C12: a get_or_else_update whose get finds the entry expired does not return
\* the stale value but goes on to the fill; a fill that holds the write guard
\* over an expired entry invokes f; when f completes the call returns f's
\* result and the entry becomes (time f completed + ttl, that result), which
\* is live from then on until that expiry.
C12_ExpiredRefill ==
    [][\A t \in Tasks :
         op[t] = "get_or_else_update" =>
            /\ (pc[t] = "get_check" /\ GetExpired(item[t], now) /\ pc'[t] # pc[t])
                  => pc'[t] = "update_wlock"
            /\ (pc[t] = "get_read" /\ revision = "lib" /\ Stale(t) /\ pc'[t] # pc[t])
                  => pc'[t] = "update_wlock"
            /\ (pc[t] = "update_locked" /\ Stale(t) /\ pc'[t] # pc[t])
                  => pc'[t] = "computing"
            /\ (pc[t] = "computing" /\ result'[t] \in Values)
                  => /\ TypeOf(result'[t]) = typ[t]
                     /\ shards'[ShardOf(t)][key[t]] =
                           [instant |-> now + ttl[t], value |-> result'[t]]
                     /\ shards'[ShardOf(t)][key[t]].instant > now]_vars

\* f has been invoked over an entry whose expiry has passed, at a time other
\* than zero
C12_Witness ==
    \E t \in Tasks :
        /\ op[t] = "get_or_else_update"
        /\ pc[t] = "computing"
        /\ Lookup(key[t]) # NoItem
        /\ Lookup(key[t]).instant < now

\* ---- C13 ------------------------------------------------------------------------------------
\* C13: the stored value of every key is the value of the last completed
\* write to it (force_insert or fill), and nothing is stored for a key never
\* written or removed since; a get that reads a key in that second case
\* returns absent, and a value a get returns is the one it read from the
\* shard, that of the last completed write at the time of the read.
C13_ReadsLastWrite ==
    [][/\ \A k \in Keys : Lookup(k).value = last_write[k]
       /\ \A t \in Tasks :
            op[t] = "get" =>
               /\ (pc[t] = "get_read" /\ pc'[t] # pc[t])
                     => /\ last_write[key[t]] = "none" => result'[t] = "absent"
                        /\ result'[t] \in Values => result'[t] = last_write[key[t]]
                        /\ pc'[t] = "get_check" => item'[t].value = last_write[key[t]]
               /\ (pc[t] = "get_check" /\ pc'[t] # pc[t])
                     => /\ item[t].value \in Values
                        /\ result'[t] \in {"absent", item[t].value}]_vars

\* every call of the budget is spent, and a get has returned the value of the
\* last completed write to its key
C13_Witness ==
    \E t, u \in Tasks :
        /\ op[t] = "get" /\ pc[t] = "idle" /\ result[t] \in Values
        /\ op[u] \in {"force_insert", "get_or_else_update"} /\ pc[u] = "idle"
        /\ key[u] = key[t] /\ result[u] \in {"unit"} \cup Values
        /\ last_write[key[t]] = result[t]
        /\ calls = MaxCalls

\* ---- C14 ------------------------------------------------------------------------------------
\* C14: from the moment the fill of get_or_else_update has its write guard,
\* through the whole of compute, up to the step that writes the entry and
\* returns, the calling task is the holder of the write lock of its key's
\* shard; only get_or_else_update is ever in that span, and the write lock of
\* a shard is never held by a task outside it. Compute never runs without
\* the lock (the order of the private `update`).
C14_ComputeUnderLock ==
    /\ \A t \in Tasks :
          pc[t] \in {"update_locked", "computing"}
             => /\ op[t] = "get_or_else_update"
                /\ writer[ShardOf(t)] = t
                /\ readers[ShardOf(t)] = {}
    /\ \A s \in DOMAIN writer :
          writer[s] # NoTask
             => /\ pc[writer[s]] \in {"update_locked", "computing"}
                /\ ShardOf(writer[s]) = s

\* a task is inside compute holding the write lock while another task waits
\* for the write lock of the same shard
C14_Witness ==
    \E t, u \in Tasks :
        /\ t # u
        /\ pc[t] = "computing"
        /\ writer[ShardOf(t)] = t
        /\ WaitsForWrite(u)
        /\ ShardOf(u) = ShardOf(t)

\* ---- C15 ------------------------------------------------------------------------------------
\* C15: no step of a get call changes the contents of any shard, and a get
\* call never reaches the fill or compute; so an entry a get reported absent
\* because it had expired is still stored, and a remove that then reaches the
\* shard finds it and returns true.
C15_GetReadOnly ==
    [][\A t \in Tasks :
         /\ (op'[t] = "get" /\ pc'[t] # pc[t])
               => /\ shards' = shards
                  /\ pc'[t] \in {"get_rlock", "get_read", "get_check", "idle"}
                  /\ result'[t] \notin {"panic_compute", "unit", "true", "false"}
         /\ (pc[t] = "remove_wlock" /\ pc'[t] = "idle"
                /\ Lookup(key[t]) # NoItem /\ Lookup(key[t]).instant < now)
               => result'[t] = "true"]_vars

\* a get has reported absent for a key whose expired entry is still stored,
\* and a remove of that key is about to act
C15_Witness ==
    \E t, u \in Tasks :
        /\ op[t] = "get" /\ pc[t] = "idle" /\ result[t] = "absent"
        /\ Lookup(key[t]) # NoItem
        /\ Lookup(key[t]).instant < now
        /\ pc[u] = "remove_wlock" /\ key[u] = key[t]
        /\ CanWrite(ShardOf(u))

\* ---- C16 ------------------------------------------------------------------------------------
\* C16: a get_or_else_update whose get finds the entry live returns from
\* there: it has taken the shard's read lock only, never asks for the write
\* lock, and changes no lock it does not hold. Read locks are shared: a
\* request for the read lock of a shard that has no writer is granted however
\* many tasks already hold that read lock.
C16_WarmReadShared ==
    [][\A t \in Tasks :
         /\ (WarmRead(t) /\ pc'[t] # pc[t])
               => /\ pc'[t] = "idle"
                  /\ writer' = writer
                  /\ \A s \in DOMAIN readers : readers'[s] = readers[s] \ {t}
         /\ (pc[t] = "get_read" /\ op[t] = "get_or_else_update")
               => /\ t \in readers[ShardOf(t)]
                  /\ writer[ShardOf(t)] = NoTask
         /\ (pc[t] = "get_rlock" /\ writer[ShardOf(t)] = NoTask)
               => ENABLED AcquireRead(t)]_vars

\* two get_or_else_update calls on the same key, whose entry is live, hold
\* the read lock of its shard at the same time
C16_Witness ==
    \E t, u \in Tasks :
        /\ t # u
        /\ op[t] = "get_or_else_update" /\ op[u] = "get_or_else_update"
        /\ key[t] = key[u]
        /\ Fresh(key[t])
        /\ pc[t] = "get_read" /\ pc[u] = "get_read"
        /\ {t, u} \subseteq readers[ShardOf(t)]

\* ---- C17 ------------------------------------------------------------------------------------
\* C17: routing sends key k to shard Hash(k) % num_shards, an index of the
\* shard vector that never changes because neither the hash of k nor
\* num_shards does; every entry of k sits in that shard, every guard a task
\* holds is on the shard of its key, and a step of an operation on k leaves
\* the contents and the locks of all other shards as they were.
C17_RoutedShardOnly ==
    [][/\ num_shards' = num_shards
       /\ DOMAIN shards = 0..(num_shards - 1)
       /\ \A k \in Keys :
             /\ get_shard(k) \in DOMAIN shards
             /\ \A s \in DOMAIN shards : shards[s][k] # NoItem => s = get_shard(k)
       /\ \A t \in Tasks :
             /\ \A s \in DOMAIN shards :
                   (t \in readers[s] \/ writer[s] = t) => s = ShardOf(t)
             /\ pc'[t] # pc[t]
                   => /\ pc[t] # "idle" => key'[t] = key[t]
                      /\ \A s \in DOMAIN shards \ {get_shard(key'[t])} :
                            /\ shards'[s] = shards[s]
                            /\ readers'[s] = readers[s]
                            /\ writer'[s] = writer[s]
                      /\ \A k \in Keys \ {key'[t]} :
                            shards'[get_shard(k)][k] = Lookup(k)]_vars

\* the store has two shards and each holds the entry of one key
C17_Witness ==
    /\ num_shards = 2
    /\ get_shard("h") # get_shard("k")
    /\ Lookup("h") # NoItem
    /\ Lookup("k") # NoItem
    /\ shards[get_shard("k")]["h"] = NoItem
    /\ shards[get_shard("h")]["k"] = NoItem

\* ---- C18 ------------------------------------------------------------------------------------
\* the shard locks task t holds: read guards and write guards
HeldRead(t) == {s \in DOMAIN readers : t \in readers[s]}
HeldWrite(t) == {s \in DOMAIN writer : writer[s] = t}

\* C18: a task holds at most one shard lock at any time, never a read and a
\* write guard together and never guards of two shards; while it waits for a
\* lock it holds none, so get_or_else_update has given up the read guard of
\* its get before it asks for the write lock.
C18_OneLockPerTask ==
    \A t \in Tasks :
        /\ Cardinality(HeldRead(t)) + Cardinality(HeldWrite(t)) <= 1
        /\ (WaitsForRead(t) \/ WaitsForWrite(t) \/ pc[t] \in {"idle", "get_check"})
              => HeldRead(t) = {} /\ HeldWrite(t) = {}
        /\ pc[t] = "get_read" => HeldRead(t) = {ShardOf(t)}
        /\ pc[t] \in {"update_locked", "computing"} => HeldWrite(t) = {ShardOf(t)}

\* a get_or_else_update that missed waits for the write lock of a shard on
\* which another task holds a lock
C18_Witness ==
    \E t, u \in Tasks :
        /\ t # u
        /\ op[t] = "get_or_else_update"
        /\ pc[t] = "update_wlock"
        /\ HeldRead(t) = {}
        /\ ShardOf(t) \in HeldRead(u) \cup HeldWrite(u)

\* ---- C19 ------------------------------------------------------------------------------------
\* some call is in progress, and no call in progress can take a step
Deadlocked ==
    /\ \E t \in Tasks : pc[t] # "idle"
    /\ \A t \in Tasks : ~ENABLED (Runs(t) \/ Granted(t))

\* C19: with every compute call terminating and lock requests served fairly,
\* every call of get, force_insert, remove and get_or_else_update that has
\* started eventually completes (by return or by panic), and no reachable
\* state is a deadlock.
C19_CallsComplete ==
    /\ \A t \in Tasks : (pc[t] # "idle") ~> (pc[t] = "idle")
    /\ []~Deadlocked

\* one task is inside compute while the other waits for the read lock of the
\* same shard
C19_Witness ==
    \E t, u \in Tasks :
        /\ pc[t] = "computing"
        /\ pc[u] = "get_rlock"
        /\ ShardOf(u) = ShardOf(t)
        /\ ~ENABLED Granted(u)

\* ---- C20 ------------------------------------------------------------------------------------
\* C20: the step on which a request fails on a type mismatch changes no
\* entry of any shard, and after it the failed task holds no read or write
\* guard and the write lock of the key's shard is free; a request on that
\* shard that waits for a lock is therefore not kept waiting by the failed
\* task, and one for the same key with the stored type reads the entry.
C20_MismatchLeavesStore ==
    [][\A t \in Tasks :
         /\ (pc[t] # "idle" /\ result'[t] = "panic_type")
               => /\ pc'[t] = "idle"
                  /\ ~Downcasts(Lookup(key[t]), typ[t])
                  /\ shards' = shards
                  /\ last_write' = last_write
                  /\ \A s \in DOMAIN shards :
                        t \notin readers'[s] /\ writer'[s] # t
                  /\ writer'[ShardOf(t)] = NoTask
         /\ (pc[t] = "idle" /\ result[t] = "panic_type")
               => \A u \in Tasks \ {t} :
                     /\ (WaitsForRead(u) /\ writer[ShardOf(u)] = NoTask)
                           => ENABLED AcquireRead(u)
                     /\ (pc[u] = "get_read" /\ key[u] = key[t] /\ pc'[u] # pc[u]
                            /\ Fresh(key[u]) /\ Downcasts(Lookup(key[u]), typ[u]))
                           => \/ result'[u] = Lookup(key[u]).value
                              \/ pc'[u] = "get_check"]_vars

\* a request has failed on a type mismatch, and a request for the same key
\* with the stored type is reading the entry, still stored and live
C20_Witness ==
    \E t, u \in Tasks :
        /\ t # u
        /\ pc[t] = "idle" /\ result[t] = "panic_type"
        /\ key[u] = key[t]
        /\ pc[u] = "get_read"
        /\ Fresh(key[u])
        /\ Downcasts(Lookup(key[u]), typ[u])

====
